---------------------------- MODULE Spec2Model ----------------------------
(***************************************************************************)
(* Model of app.py: the Steam/FACEIT profile lookup (get_steam_id64,       *)
(* get_player_data, get_faceit_data, the /search and /perfil routes) and   *)
(* the account routes (register, login, logout, account).                  *)
(*                                                                         *)
(* Python values: a dict is a function whose domain is its set of keys, a  *)
(* list is a sequence, None is the record PyNone.  One action is one       *)
(* external lookup together with the code that consumes its answer, up to  *)
(* the next lookup or the return.                                          *)
(***************************************************************************)
EXTENDS Integers, Sequences, FiniteSets, TLC

VARIABLES
    (* ---- /perfil/<steam_id64>: perfil_page and the two aggregators ---- *)
    pc,                   \* position inside perfil_page / the aggregators
    caller,               \* "perfil_page", or "direct" for a bare get_player_data call
    steam_id64,           \* the argument
    calls,                \* the external lookups issued so far, in order
    player_data,          \* get_player_data's local dict
    resp_summary,         \* get_player_data's locals: what each lookup answered
    resp_games,
    resp_stats,
    data,                 \* perfil_page's local: what get_player_data returned
    faceit_data,          \* get_faceit_data's local dict
    player_id,            \* get_faceit_data's locals
    resp_search,
    resp_lifetime,
    resp_history,
    match_list,
    idx,                  \* position of the for loop in match_list (1-based)
    detailed_match_list,
    resp_match_stats,
    faceit_ret,           \* what get_faceit_data returned (or raised)
    response,             \* what perfil_page answered
    (* ---- /search and get_steam_id64 ---- *)
    r_pc,                 \* position inside search / get_steam_id64
    r_caller,             \* "search", or "direct" for a bare get_steam_id64 call
    query,                \* the input string, a sequence of characters
    identifier,           \* get_steam_id64's local
    r_calls,              \* ResolveVanityURL lookups issued so far
    r_data,               \* get_steam_id64's local: the vanity answer
    r_result,             \* what get_steam_id64 returned (or raised)
    r_response,           \* what search answered
    (* ---- users table, session, account routes ---- *)
    users,                \* the rows of the users table, in insertion order
    current_user,         \* id of the logged-in user of the session, 0 if anonymous
    last_request          \* the route last served and how it ended

\* the locals of get_player_data and of get_faceit_data; each stays readable in
\* the state where the function returns and is dropped by the caller's next step
pdLocals == <<player_data, resp_summary, resp_games, resp_stats>>
fLocals == <<faceit_data, player_id, resp_search, resp_lifetime, resp_history,
             match_list, idx, detailed_match_list, resp_match_stats>>
profileVars == <<pc, caller, steam_id64, calls, data, faceit_ret, response,
                 pdLocals, fLocals>>
resolverVars == <<r_pc, r_caller, query, identifier, r_calls, r_data, r_result,
                  r_response>>
accountVars == <<users, current_user, last_request>>
vars == <<profileVars, resolverVars, accountVars>>

(* ------------------------- Python values ------------------------------ *)

PyNone == [pytype |-> "None"]

\* a local that is not bound (before its assignment, after the function returned)
Unbound == [pytype |-> "unbound"]

EmptyDict == <<>>

\* d.get(k, default)
Get(d, k, default) == IF k \in DOMAIN d THEN d[k] ELSE default

\* d[k] = v
SetItem(d, k, v) == [x \in DOMAIN d \cup {k} |-> IF x = k THEN v ELSE d[x]]

\* how many entries of the sequence s equal x
RECURSIVE CountOf(_, _)
CountOf(s, x) ==
    IF s = <<>> THEN 0
    ELSE (IF Head(s) = x THEN 1 ELSE 0) + CountOf(Tail(s), x)

(* ---------------------------- constants ------------------------------- *)

CS2_APP_ID == 730

\* limit=10 of the history request
HistoryLimit == 10

\* len(identifier) == 17
IdLen == 17

\* Length(min=2, max=20) of the username fields
UsernameMin == 2
UsernameMax == 20

(* ----------------------------- bounds --------------------------------- *)

\* playtime_forever ranges over 0..MaxPlaytime minutes
MaxPlaytime == 91

\* history answers of every shape up to this length
MaxItems == 3

\* a history answer that ignores limit=10 carries HistoryLimit + Extra items
Extra == 1

\* rows in the users table
MaxUsers == 2


(* --------------------- answers of the Steam Web API ------------------- *)

\* requests.get(...).json() either raises or yields the decoded body
Raise(e) == [exc |-> e]
Json(b) == [exc |-> "", body |-> b]

SteamIds == {"", "76561198000000001"}

Profile == [steamid |-> "76561198000000001", personaname |-> "nick"]

SummaryResponses ==
    { Raise("Timeout"),
      Json(EmptyDict),
      Json([response |-> EmptyDict]),
      Json([response |-> [players |-> <<>>]]),
      Json([response |-> [players |-> <<Profile>>]]) }

OtherGame == [appid |-> 440, playtime_forever |-> 600]
Cs2Game(m) == [appid |-> CS2_APP_ID, playtime_forever |-> m]

GameLists ==
    { <<>>, <<OtherGame>>,
      <<[appid |-> CS2_APP_ID]>>,
      <<[playtime_forever |-> 5], Cs2Game(60)>> }
    \cup { <<Cs2Game(m)>> : m \in 0..MaxPlaytime }
    \cup { <<OtherGame, Cs2Game(m)>> : m \in 0..MaxPlaytime }
    \cup { <<Cs2Game(m), Cs2Game(0)>> : m \in 0..MaxPlaytime }

GamesResponses ==
    { Raise("Timeout"), Json(EmptyDict), Json([response |-> EmptyDict]) }
    \cup { Json([response |-> [games |-> gs]]) : gs \in GameLists }

StatLists ==
    { <<>>,
      <<[name |-> "total_kills", value |-> 10]>>,
      <<[name |-> "total_kills", value |-> 10],
        [name |-> "total_deaths", value |-> 7],
        [name |-> "total_kills", value |-> 12]>>,
      <<[name |-> "total_kills"]>> }

StatsResponses ==
    { Raise("Timeout"), Json(EmptyDict), Json([playerstats |-> EmptyDict]) }
    \cup { Json([playerstats |-> [stats |-> ss]]) : ss \in StatLists }

(* --------------------------- get_player_data -------------------------- *)

\* an f-string is the sequence of its parts
ErrIdNotFound == [error |-> <<"ID da Steam nao encontrado.">>]
ErrPlayerNotFound == [error |-> <<"Jogador nao encontrado com este SteamID.">>]
ErrSteam(e) == [error |-> <<"Erro ao buscar dados da Steam: ", e>>]

\* m / 60 rounded with a tie going up
PyRound60HalfUp(m) == (m + 30) \div 60

\* round(m / 60) of Python 3: to the nearest integer, a tie to the even one
PyRound60(m) ==
    LET q == m \div 60
        r == m % 60
    IN  IF r < 30 THEN q
        ELSE IF r > 30 THEN q + 1
        ELSE IF q % 2 = 0 THEN q ELSE q + 1

\* the for loop over resp_games['response']['games']: the first game whose
\* appid is CS2_APP_ID sets the hours and ends the loop; a missing key raises
RECURSIVE ScanGames(_)
ScanGames(games) ==
    IF games = <<>> THEN [exc |-> "", hours |-> 0]
    ELSE LET game == Head(games)
         IN  IF "appid" \notin DOMAIN game THEN [exc |-> "KeyError: appid"]
             ELSE IF game.appid = CS2_APP_ID
                  THEN IF "playtime_forever" \notin DOMAIN game
                       THEN [exc |-> "KeyError: playtime_forever"]
                       ELSE [exc |-> "", hours |-> PyRound60(game.playtime_forever)]
                  ELSE ScanGames(Tail(games))

\* playtime_cs2_hours out of a decoded owned-games body
PlaytimeOf(body) ==
    IF "response" \in DOMAIN body /\ "games" \in DOMAIN body.response
    THEN ScanGames(body.response.games)
    ELSE [exc |-> "", hours |-> 0]

\* the for loop that fills stats_dict
RECURSIVE FlattenStats(_, _)
FlattenStats(stats, stats_dict) ==
    IF stats = <<>> THEN [exc |-> "", stats_dict |-> stats_dict]
    ELSE LET stat == Head(stats)
         IN  IF "name" \notin DOMAIN stat THEN [exc |-> "KeyError: name"]
             ELSE IF "value" \notin DOMAIN stat THEN [exc |-> "KeyError: value"]
             ELSE FlattenStats(Tail(stats), SetItem(stats_dict, stat.name, stat.value))

\* return v
PlayerDataReturn(v) ==
    /\ data' = v
    /\ pc' = "pd_return"

\* an except clause that adds the error to what was gathered so far
PlayerDataExceptKeepsPartial(e) ==
    PlayerDataReturn(SetItem(player_data, "error", ErrSteam(e).error))

\* except Exception as e: return {'error': ...}
PlayerDataExcept(e) == PlayerDataReturn(ErrSteam(e))

\* a guard that lets every id through
IdMissingNever(id) == FALSE

\* if not steam_id64
IdMissing(id) == id = ""

\* entry of get_player_data: the empty-id guard, then player_data = {}
GetPlayerData ==
    /\ UNCHANGED <<resolverVars, accountVars>>
    /\ pc = "start"
    /\ IF IdMissing(steam_id64)
       THEN PlayerDataReturn(ErrIdNotFound) /\ UNCHANGED player_data
       ELSE /\ pc' = "pd_summary"
            /\ player_data' = EmptyDict
            /\ UNCHANGED data
    /\ UNCHANGED <<caller, steam_id64, calls, faceit_ret, response, fLocals,
                   resp_summary, resp_games, resp_stats>>

\* GetPlayerSummaries and the check of the player list
LookupSummary ==
    /\ UNCHANGED <<resolverVars, accountVars>>
    /\ pc = "pd_summary"
    /\ calls' = Append(calls, "GetPlayerSummaries")
    /\ \E resp \in SummaryResponses :
         /\ resp_summary' = resp
         /\ IF resp.exc # "" THEN PlayerDataExcept(resp.exc) /\ UNCHANGED player_data
            ELSE IF "response" \notin DOMAIN resp.body
                 THEN PlayerDataExcept("KeyError: response") /\ UNCHANGED player_data
            ELSE IF "players" \notin DOMAIN resp.body.response
                 THEN PlayerDataExcept("KeyError: players") /\ UNCHANGED player_data
            ELSE IF resp.body.response.players = <<>>
                 THEN PlayerDataReturn(ErrPlayerNotFound) /\ UNCHANGED player_data
            ELSE /\ player_data' =
                       SetItem(player_data, "profile", resp.body.response.players[1])
                 /\ pc' = "pd_games"
                 /\ UNCHANGED data
    /\ UNCHANGED <<caller, steam_id64, faceit_ret, response, fLocals,
                   resp_games, resp_stats>>

\* GetOwnedGames and the playtime of the tracked game
LookupGames ==
    /\ UNCHANGED <<resolverVars, accountVars>>
    /\ pc = "pd_games"
    /\ calls' = Append(calls, "GetOwnedGames")
    /\ \E resp \in GamesResponses :
         /\ resp_games' = resp
         /\ IF resp.exc # "" THEN PlayerDataExcept(resp.exc) /\ UNCHANGED player_data
            ELSE LET scan == PlaytimeOf(resp.body)
                 IN  IF scan.exc # ""
                     THEN /\ PlayerDataExcept(scan.exc)
                          /\ player_data' =
                                SetItem(player_data, "playtime_cs2_hours", 0)
                     ELSE /\ player_data' =
                                SetItem(player_data, "playtime_cs2_hours", scan.hours)
                          /\ pc' = "pd_stats"
                          /\ UNCHANGED data
    /\ UNCHANGED <<caller, steam_id64, faceit_ret, response, fLocals,
                   resp_summary, resp_stats>>

\* GetUserStatsForGame, the stat mapping and the return of player_data
LookupStats ==
    /\ UNCHANGED <<resolverVars, accountVars>>
    /\ pc = "pd_stats"
    /\ calls' = Append(calls, "GetUserStatsForGame")
    /\ \E resp \in StatsResponses :
         /\ resp_stats' = resp
         /\ IF resp.exc # "" THEN PlayerDataExcept(resp.exc) /\ UNCHANGED player_data
            ELSE IF "playerstats" \in DOMAIN resp.body
                    /\ "stats" \in DOMAIN resp.body.playerstats
                 THEN LET flat == FlattenStats(resp.body.playerstats.stats, EmptyDict)
                      IN  IF flat.exc # ""
                          THEN PlayerDataExcept(flat.exc) /\ UNCHANGED player_data
                          ELSE /\ player_data' =
                                     SetItem(SetItem(player_data, "stats",
                                                     flat.stats_dict),
                                             "profile_public", TRUE)
                               /\ PlayerDataReturn(player_data')
                 ELSE /\ player_data' = SetItem(player_data, "profile_public", FALSE)
                      /\ PlayerDataReturn(player_data')
    /\ UNCHANGED <<caller, steam_id64, faceit_ret, response, fLocals,
                   resp_summary, resp_games>>

(* ---------------------- answers of the FACEIT API --------------------- *)

\* a requests.get that raised, or a response with its status and decoded body
Http(status, body) == [exc |-> "", status_code |-> status, body |-> body]

SearchResponses ==
    { Raise("Timeout"),
      Http(404, EmptyDict),
      Http(200, [nickname |-> "nick"]),
      Http(200, [player_id |-> "", nickname |-> "nick"]),
      Http(200, [player_id |-> "p1", nickname |-> "nick"]) }

LifetimeResponses ==
    { Raise("Timeout"),
      Http(503, EmptyDict),
      Http(200, [player_id |-> "p1"]),
      Http(200, [player_id |-> "p1", lifetime |-> [Matches |-> "100"]]) }

\* the match ids of the history items, named after what /matches/<id>/stats answers
MatchIds == {"m_won", "m_lost", "m_404", "m_others", "m_norounds",
             "m_emptyrounds", "m_timeout"}

Item(id) == [match_id |-> id, game_id |-> "cs2"]

Items == { Item(id) : id \in MatchIds }
         \cup { [game_id |-> "cs2"], [match_id |-> "", game_id |-> "cs2"] }

\* the item kinds whose processing raises nothing, in a fixed order
QuietItems ==
    << Item("m_won"), Item("m_404"), Item("m_lost"), [game_id |-> "cs2"],
       Item("m_others"), Item("m_norounds"), [match_id |-> "", game_id |-> "cs2"] >>

\* n items cycling through QuietItems
Cycle(n) == [i \in 1..n |-> QuietItems[((i - 1) % Len(QuietItems)) + 1]]

\* n items, all with a match id
Alternating(n) == [i \in 1..n |-> IF i % 2 = 1 THEN Item("m_won") ELSE Item("m_404")]

ShortLists == UNION { [1..n -> Items] : n \in 0..MaxItems }

ItemLists ==
    ShortLists
    \cup { Cycle(HistoryLimit), Alternating(HistoryLimit),
           Alternating(HistoryLimit + Extra),
           Cycle(MaxItems + 1) \o <<Item("m_emptyrounds"), Item("m_won")>>,
           Cycle(MaxItems + 1) \o <<Item("m_timeout"), Item("m_won")>> }

HistoryResponses ==
    { Raise("Timeout"), Http(500, EmptyDict), Http(200, EmptyDict) }
    \cup { Http(200, [items |-> l]) : l \in ItemLists }

Player(id, player_stats) == [player_id |-> id, player_stats |-> player_stats]

\* what GET /matches/<match_id>/stats answers
MatchStats(match_id) ==
    CASE match_id = "m_won" ->
           Http(200, [rounds |-> <<
             [round_stats |-> [Score |-> "13 / 7", Map |-> "de_mirage"],
              teams |-> <<
                [players |-> <<
                   Player("p2", [Result |-> "1", Kills |-> "9", Deaths |-> "9",
                                 Assists |-> "9"]),
                   Player("p1", [Result |-> "1", Kills |-> "20", Deaths |-> "10",
                                 Assists |-> "5"]) >>],
                [players |-> <<
                   Player("p1", [Result |-> "0", Kills |-> "1", Deaths |-> "1",
                                 Assists |-> "1"]) >>] >>] >>])
      [] match_id = "m_lost" ->
           Http(200, [rounds |-> <<
             [teams |-> <<
                [team_id |-> "t1"],
                [players |-> <<
                   [player_stats |-> [Result |-> "1"]],
                   Player("p1", [Result |-> "0", Deaths |-> "15"]) >>] >>],
             [round_stats |-> [Score |-> "0 / 13", Map |-> "de_nuke"],
              teams |-> << [players |-> <<
                   Player("p1", [Result |-> "1", Kills |-> "30"]) >>] >>] >>])
      [] match_id = "m_404" -> Http(404, EmptyDict)
      [] match_id = "m_others" ->
           Http(200, [rounds |-> <<
             [round_stats |-> [Score |-> "13 / 7", Map |-> "de_mirage"],
              teams |-> << [players |-> <<
                   Player("p2", [Result |-> "1", Kills |-> "9"]) >>],
                           [players |-> <<>>] >>] >>])
      [] match_id = "m_norounds" -> Http(200, EmptyDict)
      [] match_id = "m_emptyrounds" -> Http(200, [rounds |-> <<>>])
      [] OTHER -> Raise("Timeout")

(* --------------------------- get_faceit_data -------------------------- *)

Returned(v) == [kind |-> "return", value |-> v]
Raised(e) == [kind |-> "raise", exc |-> e]

\* get_faceit_data ends with outcome r
FaceitEnd(r) ==
    /\ faceit_ret' = r
    /\ pc' = "f_return"

\* no except clause: the exception reaches the caller
FaceitExceptPropagates(e) == FaceitEnd(Raised(e))

\* except Exception as e: return None
FaceitExcept(e) == FaceitEnd(Returned(PyNone))

\* the append of the non-200 branch without its continue: the item lands twice
AppendMatchTwice(list, match) == Append(Append(list, match), match)

\* detailed_match_list.append(match)
AppendMatch(list, match) == Append(list, match)

\* x.get(k) is truthy
Truthy(d, k) == k \in DOMAIN d /\ d[k] # ""

\* the two nested for loops: the first player, in team order and then player
\* order, whose player_id is pid; PyNone when the loops end without a break
RECURSIVE FirstPlayer(_, _)
FirstPlayer(players, pid) ==
    IF players = <<>> THEN PyNone
    ELSE IF "player_id" \in DOMAIN Head(players) /\ Head(players).player_id = pid
         THEN Head(players)
         ELSE FirstPlayer(Tail(players), pid)

\* a scan that stops after the first team
FirstInTeamsFirstTeamOnly(teams, pid) ==
    IF teams = <<>> THEN PyNone
    ELSE FirstPlayer(Get(Head(teams), "players", <<>>), pid)

\* for team in ...teams: the first hit of FirstPlayer, in team order
RECURSIVE FirstInTeams(_, _)
FirstInTeams(teams, pid) ==
    IF teams = <<>> THEN PyNone
    ELSE LET player == FirstPlayer(Get(Head(teams), "players", <<>>), pid)
         IN  IF player # PyNone THEN player ELSE FirstInTeams(Tail(teams), pid)

\* the dict assigned to match['stats']
StatsOf(player, round) ==
    LET player_stats == Get(player, "player_stats", EmptyDict)
        round_stats == Get(round, "round_stats", EmptyDict)
    IN  [result |-> IF Get(player_stats, "Result", "") = "1" THEN "Venceu" ELSE "Perdeu",
         score |-> Get(round_stats, "Score", "N/A"),
         map |-> Get(round_stats, "Map", "N/A"),
         kills |-> Get(player_stats, "Kills", "0"),
         deaths |-> Get(player_stats, "Deaths", "0"),
         assists |-> Get(player_stats, "Assists", "0")]

\* the body of the history loop after a 200 detail answer: stats_data is the
\* decoded body; rounds[0] of an empty list raises IndexError
EnrichMatch(match, stats_data, pid) ==
    LET rounds == Get(stats_data, "rounds", <<EmptyDict>>)
    IN  IF rounds = <<>> THEN [exc |-> "IndexError"]
        ELSE LET player == FirstInTeams(Get(rounds[1], "teams", <<>>), pid)
             IN  IF player = PyNone THEN [exc |-> "", match |-> match]
                 ELSE [exc |-> "",
                       match |-> SetItem(match, "stats", StatsOf(player, rounds[1]))]

\* entry of get_faceit_data: headers and faceit_data = {}
GetFaceitData ==
    /\ UNCHANGED <<resolverVars, accountVars>>
    /\ pc = "f_start"
    /\ faceit_data' = EmptyDict
    /\ pc' = "f_search"
    /\ UNCHANGED <<caller, steam_id64, calls, data, faceit_ret, response, pdLocals,
                   player_id, resp_search, resp_lifetime, resp_history, match_list,
                   idx, detailed_match_list, resp_match_stats>>

\* GET /players?game=cs2&game_player_id=...
FaceitSearch ==
    /\ UNCHANGED <<resolverVars, accountVars>>
    /\ pc = "f_search"
    /\ calls' = Append(calls, "faceit/players")
    /\ \E resp \in SearchResponses :
         /\ resp_search' = resp
         /\ IF resp.exc # ""
            THEN FaceitExcept(resp.exc) /\ UNCHANGED <<player_id, faceit_data>>
            ELSE IF resp.status_code # 200
                 THEN FaceitEnd(Returned(PyNone)) /\ UNCHANGED <<player_id, faceit_data>>
            ELSE IF ~Truthy(resp.body, "player_id")
                 THEN FaceitEnd(Returned(PyNone)) /\ UNCHANGED <<player_id, faceit_data>>
            ELSE /\ player_id' = resp.body.player_id
                 /\ faceit_data' = SetItem(faceit_data, "profile", resp.body)
                 /\ pc' = "f_stats"
                 /\ UNCHANGED faceit_ret
    /\ UNCHANGED <<caller, steam_id64, data, response, pdLocals, resp_lifetime,
                   resp_history, match_list, idx, detailed_match_list,
                   resp_match_stats>>

\* GET /players/<player_id>/stats/cs2
FaceitLifetime ==
    /\ UNCHANGED <<resolverVars, accountVars>>
    /\ pc = "f_stats"
    /\ calls' = Append(calls, "faceit/stats")
    /\ \E resp \in LifetimeResponses :
         /\ resp_lifetime' = resp
         /\ IF resp.exc # "" THEN FaceitExcept(resp.exc) /\ UNCHANGED faceit_data
            ELSE /\ faceit_data' =
                       SetItem(faceit_data, "stats",
                               IF resp.status_code = 200
                               THEN Get(resp.body, "lifetime", EmptyDict)
                               ELSE EmptyDict)
                 /\ pc' = "f_history"
                 /\ UNCHANGED faceit_ret
    /\ UNCHANGED <<caller, steam_id64, data, response, pdLocals, player_id,
                   resp_search, resp_history, match_list, idx, detailed_match_list,
                   resp_match_stats>>

\* GET /players/<player_id>/history?game=cs2&offset=0&limit=10
FaceitHistory ==
    /\ UNCHANGED <<resolverVars, accountVars>>
    /\ pc = "f_history"
    /\ calls' = Append(calls, "faceit/history")
    /\ \E resp \in HistoryResponses :
         /\ resp_history' = resp
         /\ IF resp.exc # ""
            THEN /\ FaceitExcept(resp.exc)
                 /\ UNCHANGED <<faceit_data, match_list, idx, detailed_match_list>>
            ELSE IF resp.status_code # 200
                 THEN /\ faceit_data' = SetItem(faceit_data, "history", <<>>)
                      /\ FaceitEnd(Returned(faceit_data'))
                      /\ UNCHANGED <<match_list, idx, detailed_match_list>>
            ELSE /\ match_list' = Get(resp.body, "items", <<>>)
                 /\ detailed_match_list' = <<>>
                 /\ idx' = 1
                 /\ pc' = "f_loop"
                 /\ UNCHANGED <<faceit_data, faceit_ret>>
    /\ UNCHANGED <<caller, steam_id64, data, response, pdLocals, player_id,
                   resp_search, resp_lifetime, resp_match_stats>>

\* one pass of "for match in match_list"
FaceitLoopStep ==
    /\ UNCHANGED <<resolverVars, accountVars>>
    /\ pc = "f_loop"
    /\ idx <= Len(match_list)
    /\ LET match == match_list[idx]
       IN  IF ~Truthy(match, "match_id")
           THEN /\ idx' = idx + 1
                /\ UNCHANGED <<calls, pc, detailed_match_list, resp_match_stats,
                               faceit_ret>>
           ELSE /\ calls' = Append(calls, "faceit/matches")
                /\ resp_match_stats' = MatchStats(match.match_id)
                /\ LET resp == resp_match_stats'
                   IN  IF resp.exc # ""
                       THEN /\ FaceitExcept(resp.exc)
                            /\ UNCHANGED <<idx, detailed_match_list>>
                       ELSE LET done ==
                                  IF resp.status_code # 200
                                  THEN [exc |-> "", match |-> match]
                                  ELSE EnrichMatch(match, resp.body, player_id)
                            IN  IF done.exc # ""
                                THEN /\ FaceitExcept(done.exc)
                                     /\ UNCHANGED <<idx, detailed_match_list>>
                                ELSE /\ detailed_match_list' =
                                           AppendMatch(detailed_match_list, done.match)
                                     /\ idx' = idx + 1
                                     /\ UNCHANGED <<pc, faceit_ret>>
    /\ UNCHANGED <<caller, steam_id64, data, response, pdLocals, faceit_data,
                   player_id, resp_search, resp_lifetime, resp_history, match_list>>

\* the loop is over: faceit_data['history'] = detailed_match_list; return
FaceitLoopEnd ==
    /\ UNCHANGED <<resolverVars, accountVars>>
    /\ pc = "f_loop"
    /\ idx > Len(match_list)
    /\ faceit_data' = SetItem(faceit_data, "history", detailed_match_list)
    /\ FaceitEnd(Returned(faceit_data'))
    /\ UNCHANGED <<caller, steam_id64, calls, data, response, pdLocals, player_id,
                   resp_search, resp_lifetime, resp_history, match_list, idx,
                   detailed_match_list, resp_match_stats>>

(* ------------------------------ perfil_page --------------------------- *)

NoResponse == [kind |-> "none"]

\* no local of get_player_data / get_faceit_data is bound
PdUnbound ==
    /\ player_data = Unbound
    /\ resp_summary = Unbound
    /\ resp_games = Unbound
    /\ resp_stats = Unbound

FUnbound ==
    /\ faceit_data = Unbound
    /\ player_id = Unbound
    /\ resp_search = Unbound
    /\ resp_lifetime = Unbound
    /\ resp_history = Unbound
    /\ match_list = Unbound
    /\ idx = 0
    /\ detailed_match_list = Unbound
    /\ resp_match_stats = Unbound

\* the caller goes on: the frame of the function that returned is gone
DropPdLocals ==
    /\ player_data' = Unbound
    /\ resp_summary' = Unbound
    /\ resp_games' = Unbound
    /\ resp_stats' = Unbound

DropFLocals ==
    /\ faceit_data' = Unbound
    /\ player_id' = Unbound
    /\ resp_search' = Unbound
    /\ resp_lifetime' = Unbound
    /\ resp_history' = Unbound
    /\ match_list' = Unbound
    /\ idx' = 0
    /\ detailed_match_list' = Unbound
    /\ resp_match_stats' = Unbound

\* a check that takes every primary result for a record
IsErrorAlwaysFalse(d) == FALSE

\* if 'error' in data
IsError(d) == "error" \in DOMAIN d

\* get_player_data returned: the error page, or on to get_faceit_data
PerfilAfterPlayerData ==
    /\ UNCHANGED <<resolverVars, accountVars>>
    /\ pc = "pd_return"
    /\ DropPdLocals
    /\ IF caller = "direct"
       THEN pc' = "done" /\ UNCHANGED response
       ELSE IF IsError(data)
            THEN /\ response' = [kind |-> "text", body |-> <<"Erro: ">> \o data.error]
                 /\ pc' = "done"
            ELSE /\ pc' = "f_start"
                 /\ UNCHANGED response
    /\ UNCHANGED <<caller, steam_id64, calls, data, faceit_ret, fLocals>>

\* data['faceit'] = <what get_faceit_data returned>; render perfil.html
PerfilRender ==
    /\ UNCHANGED <<resolverVars, accountVars>>
    /\ pc = "f_return"
    /\ DropFLocals
    /\ IF faceit_ret.kind = "raise"
       THEN /\ response' = [kind |-> "error", exc |-> faceit_ret.exc]
            /\ UNCHANGED data
       ELSE /\ data' = SetItem(data, "faceit", faceit_ret.value)
            /\ response' = [kind |-> "template", template |-> "perfil.html",
                            data |-> data']
    /\ pc' = "done"
    /\ UNCHANGED <<caller, steam_id64, calls, faceit_ret, pdLocals>>

InitProfile ==
    /\ pc = "start"
    /\ caller \in {"perfil_page", "direct"}
    /\ steam_id64 \in (IF caller = "direct" THEN SteamIds ELSE SteamIds \ {""})
    /\ calls = <<>>
    /\ data = Unbound
    /\ faceit_ret = Unbound
    /\ response = NoResponse
    /\ PdUnbound
    /\ FUnbound

IdleProfile ==
    /\ pc = "idle"
    /\ caller = "direct"
    /\ steam_id64 = ""
    /\ calls = <<>>
    /\ data = Unbound
    /\ faceit_ret = Unbound
    /\ response = NoResponse
    /\ PdUnbound
    /\ FUnbound

NextProfile ==
    \/ GetPlayerData
    \/ LookupSummary
    \/ LookupGames
    \/ LookupStats
    \/ PerfilAfterPlayerData
    \/ GetFaceitData
    \/ FaceitSearch
    \/ FaceitLifetime
    \/ FaceitHistory
    \/ FaceitLoopStep
    \/ FaceitLoopEnd
    \/ PerfilRender

(* ------------------------ get_steam_id64, search ---------------------- *)

\* a str is the sequence of its characters
DigitChars == {"0", "1", "2", "3", "4", "5", "6", "7", "8", "9"}

AllDigits(n) == [i \in 1..n |-> "7"]
WithChar(n, p, c) == [i \in 1..n |-> IF i = p THEN c ELSE "7"]

Segments ==
    { AllDigits(n) : n \in {0, 1, IdLen - 1, IdLen, IdLen + 1} }
    \cup { WithChar(IdLen, p, "a") : p \in {1, IdLen} }
    \cup { WithChar(IdLen, 1, "0"), WithChar(IdLen, IdLen, "-"), <<"a", "b">> }

Prefixes ==
    { <<>>, <<"/">>, <<"i", "d", "/">>,
      <<"h", ":", "/", "/", "s", "/", "i", "d", "/">>,
      AllDigits(IdLen) \o <<"/">> }

Suffixes == { <<>>, <<"/">>, <<"/", "/">> }

Queries == { p \o s \o x : p \in Prefixes, s \in Segments, x \in Suffixes }

ResolvedId == WithChar(IdLen, 2, "6")

VanityResponses ==
    { Raise("Timeout"),
      Json(EmptyDict),
      Json([response |-> EmptyDict]),
      Json([response |-> [success |-> 1]]),
      Json([response |-> [success |-> 42, message |-> <<"N", "o">>]]),
      Json([response |-> [success |-> 1, steamid |-> ResolvedId]]),
      Json([response |-> [success |-> 1, steamid |-> <<>>]]) }

\* the value of a returned str, or None
ReturnedStr(str) == [kind |-> "return", is_none |-> FALSE, value |-> str]
ReturnedNone == [kind |-> "return", is_none |-> TRUE, value |-> <<>>]

\* input_query.strip("/")
RECURSIVE LStrip(_)
LStrip(str) == IF str # <<>> /\ Head(str) = "/" THEN LStrip(Tail(str)) ELSE str

RECURSIVE RStrip(_)
RStrip(str) ==
    IF str # <<>> /\ str[Len(str)] = "/"
    THEN RStrip(SubSeq(str, 1, Len(str) - 1))
    ELSE str

Strip(str) == RStrip(LStrip(str))

\* str.split("/")[-1]
LastPart(str) ==
    LET slashes == { i \in 1..Len(str) : str[i] = "/" }
    IN  IF slashes = {} THEN str
        ELSE SubSeq(str, (CHOOSE i \in slashes : \A j \in slashes : j <= i) + 1,
                    Len(str))

\* str.isdigit()
IsDigit(str) == str # <<>> /\ \A i \in 1..Len(str) : str[i] \in DigitChars

\* the test without its length half
IsCanonicalAnyLength(id) == IsDigit(id)

\* identifier.isdigit() and len(identifier) == 17
IsCanonical(id) == IsDigit(id) /\ Len(id) = IdLen

\* except Exception as e: return None
VanityExcept(e) == ReturnedNone

\* the try block of get_steam_id64 on the answer resp
VanityResult(resp) ==
    IF resp.exc # "" THEN VanityExcept(resp.exc)
    ELSE IF "response" \notin DOMAIN resp.body THEN VanityExcept("KeyError: response")
    ELSE IF "success" \notin DOMAIN resp.body.response
         THEN VanityExcept("KeyError: success")
    ELSE IF resp.body.response.success = 1
         THEN IF "steamid" \notin DOMAIN resp.body.response
              THEN VanityExcept("KeyError: steamid")
              ELSE ReturnedStr(resp.body.response.steamid)
         ELSE ReturnedNone

\* entry of get_steam_id64: the identifier, and the return without a lookup
GetSteamId64 ==
    /\ UNCHANGED <<profileVars, accountVars>>
    /\ r_pc = "resolve"
    /\ identifier' = LastPart(Strip(query))
    /\ IF IsCanonical(identifier')
       THEN r_result' = ReturnedStr(identifier') /\ r_pc' = "returned"
       ELSE r_pc' = "vanity" /\ UNCHANGED r_result
    /\ UNCHANGED <<r_caller, query, r_calls, r_data, r_response>>

\* ResolveVanityURL and the return of get_steam_id64
ResolveVanity ==
    /\ UNCHANGED <<profileVars, accountVars>>
    /\ r_pc = "vanity"
    /\ r_calls' = r_calls + 1
    /\ \E resp \in VanityResponses :
         /\ r_data' = resp
         /\ r_result' = VanityResult(resp)
    /\ r_pc' = "returned"
    /\ UNCHANGED <<r_caller, query, identifier, r_response>>

\* the search route up to the call of get_steam_id64
Search ==
    /\ UNCHANGED <<profileVars, accountVars>>
    /\ r_pc = "start"
    /\ IF r_caller = "search" /\ query = <<>>
       THEN /\ r_response' = [kind |-> "redirect", to |-> "index"]
            /\ r_pc' = "done"
       ELSE r_pc' = "resolve" /\ UNCHANGED r_response
    /\ UNCHANGED <<r_caller, query, identifier, r_calls, r_data, r_result>>

\* the search route after get_steam_id64: if steam_id64: redirect
SearchRedirect ==
    /\ UNCHANGED <<profileVars, accountVars>>
    /\ r_pc = "returned"
    /\ r_pc' = "done"
    /\ IF r_caller = "direct" THEN UNCHANGED r_response
       ELSE IF r_result.kind = "raise" THEN r_response' = [kind |-> "error", to |-> ""]
       ELSE IF ~r_result.is_none /\ r_result.value # <<>>
            THEN r_response' = [kind |-> "redirect", to |-> "perfil_page"]
            ELSE r_response' = [kind |-> "redirect", to |-> "index"]
    /\ UNCHANGED <<r_caller, query, identifier, r_calls, r_data, r_result>>

InitSearch ==
    /\ r_pc = "start"
    /\ r_caller \in {"search", "direct"}
    /\ query \in Queries
    /\ identifier = <<>>
    /\ r_calls = 0
    /\ r_data = Unbound
    /\ r_result = Unbound
    /\ r_response = NoResponse

IdleSearch ==
    /\ r_pc = "idle"
    /\ r_caller = "search"
    /\ query = <<>>
    /\ identifier = <<>>
    /\ r_calls = 0
    /\ r_data = Unbound
    /\ r_result = Unbound
    /\ r_response = NoResponse

NextSearch ==
    \/ Search
    \/ GetSteamId64
    \/ ResolveVanity
    \/ SearchRedirect

(* ------------------- users table and account routes ------------------ *)

\* usernames are sequences of characters; of an email and a password only
\* emptiness and equality are looked at
Usernames ==
    { <<" ">>, <<"a">>, <<"a", "n", "a">>, <<"b", "o", "b">>, <<"e", "v", "e">>,
      [i \in 1..(UsernameMax + 1) |-> "x"] }

Emails == { "", "ana@x", "bob@x", "eve@x" }

\* what a registration may choose, and what may be typed at login or as confirmation
Passwords == { "", "pw1" }
TypedPasswords == { "", "pw1", "pw2" }

Pictures == { "", "me.png", "me.gif" }

\* bcrypt.generate_password_hash / check_password_hash
Hash(password) == <<"bcrypt", password>>

\* DataRequired on a sequence of characters / on an atom
BlankName(str) == \A i \in 1..Len(str) : str[i] = " "
BlankAtom(a) == a \in {"", " "}

\* User.query.filter_by(username=...).first() / filter_by(email=...).first() is truthy
UsernameInUse(rows, username) == \E i \in 1..Len(rows) : rows[i].username = username
EmailInUse(rows, email) == \E i \in 1..Len(rows) : rows[i].email = email

\* the row of the logged-in user
CurrentRow == users[current_user]

\* the chain DataRequired, Length(min=2, max=20), validate_username of a form:
\* DataRequired stops the chain, the others add their errors
UsernameErrors(username, taken) ==
    IF BlankName(username) THEN {"username: required"}
    ELSE (IF Len(username) < UsernameMin \/ Len(username) > UsernameMax
          THEN {"username: length"} ELSE {})
         \cup (IF taken THEN {"username: in use"} ELSE {})

EmailErrors(email, taken) ==
    IF BlankAtom(email) THEN {"email: required"}
    ELSE IF taken THEN {"email: in use"} ELSE {}

\* a registration form without validate_username
RegistrationUsernameNotChecked(username) == FALSE

\* RegistrationForm.validate_username / validate_email
RegistrationUsernameTaken(username) == UsernameInUse(users, username)
RegistrationEmailTaken(email) == EmailInUse(users, email)

\* UpdateAccountForm.validate_username / validate_email
UpdateUsernameTaken(username) ==
    username # CurrentRow.username /\ UsernameInUse(users, username)
UpdateEmailTaken(email) ==
    email # CurrentRow.email /\ EmailInUse(users, email)

\* RegistrationForm.validate_on_submit(): the errors of the form
RegistrationErrors(username, email, password, confirm_password) ==
    UsernameErrors(username, RegistrationUsernameTaken(username))
    \cup EmailErrors(email, RegistrationEmailTaken(email))
    \cup (IF password = "" THEN {"password: required"} ELSE {})
    \cup (IF confirm_password = "" THEN {"confirm_password: required"}
          ELSE IF confirm_password # password THEN {"confirm_password: equal"}
          ELSE {})

\* UpdateAccountForm.validate_on_submit(): the errors of the form
UpdateErrors(username, email, picture) ==
    UsernameErrors(username, UpdateUsernameTaken(username))
    \cup EmailErrors(email, UpdateEmailTaken(email))
    \cup (IF picture \notin {"", "me.png"} THEN {"picture: not allowed"} ELSE {})

\* unique=True of User.username and User.email, enforced at db.session.commit()
UniqueConstraint(rows) ==
    \A i, j \in 1..Len(rows) :
        i # j => rows[i].username # rows[j].username /\ rows[i].email # rows[j].email

Served(route, outcome, errors) ==
    [route |-> route, outcome |-> outcome, errors |-> errors]

\* POST /register
Register(username, email, password, confirm_password) ==
    /\ UNCHANGED <<profileVars, resolverVars>>
    /\ IF current_user # 0
       THEN /\ last_request' = Served("register", "redirect index", {})
            /\ UNCHANGED users
       ELSE LET errors == RegistrationErrors(username, email, password,
                                             confirm_password)
                user == [id |-> Len(users) + 1, username |-> username,
                         email |-> email, avatar_url |-> "default.png",
                         password_hash |-> Hash(password)]
            IN  IF errors # {}
                THEN /\ last_request' = Served("register", "invalid", errors)
                     /\ UNCHANGED users
                ELSE IF ~UniqueConstraint(Append(users, user))
                THEN /\ last_request' = Served("register", "IntegrityError", {})
                     /\ UNCHANGED users
                ELSE /\ Len(users) < MaxUsers
                     /\ users' = Append(users, user)
                     /\ last_request' = Served("register", "created", {})
    /\ UNCHANGED current_user

\* POST /login
Login(email, password) ==
    /\ UNCHANGED <<profileVars, resolverVars>>
    /\ UNCHANGED users
    /\ IF current_user # 0
       THEN /\ last_request' = Served("login", "redirect index", {})
            /\ UNCHANGED current_user
       ELSE IF BlankAtom(email) \/ password = ""
       THEN /\ last_request' = Served("login", "invalid", {"required"})
            /\ UNCHANGED current_user
       ELSE LET hits == { i \in 1..Len(users) : users[i].email = email }
                first == CHOOSE i \in hits : \A j \in hits : i <= j
            IN  IF hits # {} /\ users[first].password_hash = Hash(password)
                THEN /\ current_user' = users[first].id
                     /\ last_request' = Served("login", "logged in", {})
                ELSE /\ last_request' = Served("login", "failed", {})
                     /\ UNCHANGED current_user

\* GET /logout
Logout ==
    /\ UNCHANGED <<profileVars, resolverVars>>
    /\ UNCHANGED users
    /\ IF current_user = 0
       THEN /\ last_request' = Served("logout", "redirect login", {})
            /\ UNCHANGED current_user
       ELSE /\ current_user' = 0
            /\ last_request' = Served("logout", "logged out", {})

\* POST /account
Account(username, email, picture) ==
    /\ UNCHANGED <<profileVars, resolverVars>>
    /\ UNCHANGED current_user
    /\ IF current_user = 0
       THEN /\ last_request' = Served("account", "redirect login", {})
            /\ UNCHANGED users
       ELSE LET errors == UpdateErrors(username, email, picture)
                row == [CurrentRow EXCEPT
                          !.avatar_url = IF picture # "" THEN "hex.png" ELSE @,
                          !.username = username,
                          !.email = email]
                rows == [users EXCEPT ![current_user] = row]
            IN  IF errors # {}
                THEN /\ last_request' = Served("account", "invalid", errors)
                     /\ UNCHANGED users
                ELSE IF ~UniqueConstraint(rows)
                THEN /\ last_request' = Served("account", "IntegrityError", {})
                     /\ UNCHANGED users
                ELSE /\ users' = rows
                     /\ last_request' = Served("account", "updated", {})

InitAccounts ==
    /\ users = <<>>
    /\ current_user = 0
    /\ last_request = Served("", "", {})

RegisterStep ==
    \E username \in Usernames, email \in Emails, password \in Passwords,
       confirm \in TypedPasswords :
        Register(username, email, password, confirm)

LoginStep == \E email \in Emails, password \in TypedPasswords : Login(email, password)

AccountStep ==
    \E username \in Usernames, email \in Emails, picture \in Pictures :
        Account(username, email, picture)

NextAccounts ==
    \/ RegisterStep
    \/ LoginStep
    \/ Logout
    \/ AccountStep

(* --------------------------- specifications --------------------------- *)

\* one /perfil request, or one bare call of get_player_data
Init == InitProfile /\ IdleSearch /\ InitAccounts
Next == NextProfile
Spec == Init /\ [][Next]_vars

\* one /search request, or one bare call of get_steam_id64
SearchInit == IdleProfile /\ InitSearch /\ InitAccounts
SpecSearch == SearchInit /\ [][NextSearch]_vars

\* any sequence of register, login, logout and account requests of one session
AccountsInit == IdleProfile /\ IdleSearch /\ InitAccounts
SpecAccounts == AccountsInit /\ [][NextAccounts]_vars

(* ------------------------ claims: get_player_data --------------------- *)

\* get_player_data has reached its return statement
PlayerDataReturned == pc = "pd_return"

\* the decoded owned-games answer carries a games list
HasGamesList(resp) ==
    /\ resp.exc = ""
    /\ "response" \in DOMAIN resp.body
    /\ "games" \in DOMAIN resp.body.response

\* positions of the tracked game in the games list of an owned-games answer
TrackedAt(resp) ==
    IF HasGamesList(resp)
    THEN { i \in 1..Len(resp.body.response.games) :
             /\ "appid" \in DOMAIN resp.body.response.games[i]
             /\ resp.body.response.games[i].appid = CS2_APP_ID }
    ELSE {}

\* playtime_forever of the first tracked game
TrackedMinutes(resp) ==
    resp.body.response.games[CHOOSE i \in TrackedAt(resp) :
                                \A j \in TrackedAt(resp) : i <= j].playtime_forever

\* the owned-games lookup has been consumed without an exception
GamesConsumed ==
    /\ pc \in {"pd_stats", "pd_return"}
    /\ "exc" \in DOMAIN resp_games
    /\ "playtime_cs2_hours" \in DOMAIN player_data
    /\ ~IsError(data)

\* C4, as stated: playtime-hours is floor((m + 30) / 60) for every playtime m of
\* the tracked game, ties m mod 60 = 30 included, and 0 when the game or the
\* games list is absent.
C4_HalfUp ==
    GamesConsumed =>
        player_data.playtime_cs2_hours =
            (IF TrackedAt(resp_games) = {} THEN 0
             ELSE (TrackedMinutes(resp_games) + 30) \div 60)

\* C4, amended: playtime-hours h is the integer nearest to m / 60, and on a tie
\* (m mod 60 = 30) the even one of the two; 0 when the tracked game or the games
\* list is absent.
C4_HalfEven ==
    GamesConsumed =>
        LET h == player_data.playtime_cs2_hours
        IN  IF TrackedAt(resp_games) = {} THEN h = 0
            ELSE LET m == TrackedMinutes(resp_games)
                 IN  /\ 60 * h - m \in -30..30
                     /\ (m % 60 = 30 => h % 2 = 0)

C4_Witness ==
    /\ GamesConsumed
    /\ TrackedAt(resp_games) # {}
    /\ TrackedMinutes(resp_games) = 30
    /\ player_data.playtime_cs2_hours = 0

\* the summary answer is a decoded body with an empty player list
EmptyPlayerList(resp) ==
    /\ "exc" \in DOMAIN resp
    /\ resp.exc = ""
    /\ "response" \in DOMAIN resp.body
    /\ "players" \in DOMAIN resp.body.response
    /\ resp.body.response.players = <<>>

\* C5: with an empty player list in the summary answer get_player_data returns
\* an error result having issued the summary lookup only; with an empty id it
\* returns an error result having issued no lookup at all.
C5_EmptyListAborts ==
    /\ (steam_id64 = "" /\ caller = "direct" => calls = <<>>)
    /\ (PlayerDataReturned /\ steam_id64 = "" => "error" \in DOMAIN data)
    /\ (EmptyPlayerList(resp_summary) =>
            /\ PlayerDataReturned
            /\ "error" \in DOMAIN data
            /\ calls = <<"GetPlayerSummaries">>)

C5_Witness ==
    /\ PlayerDataReturned
    /\ EmptyPlayerList(resp_summary)
    /\ data = ErrPlayerNotFound

\* a lookup of get_player_data has raised
LookupRaised(resp) == "exc" \in DOMAIN resp /\ resp.exc # ""

\* the lookups issued when the k-th one is the last
PlayerCalls(k) ==
    SubSeq(<<"GetPlayerSummaries", "GetOwnedGames", "GetUserStatsForGame">>, 1, k)

\* C6: when one of the three lookups raises, get_player_data returns at once:
\* the raising lookup is the last one issued and the result holds the error
\* message and nothing else.
C6_ExceptionAborts ==
    /\ (LookupRaised(resp_summary) =>
            PlayerDataReturned /\ calls = PlayerCalls(1) /\ DOMAIN data = {"error"})
    /\ (LookupRaised(resp_games) =>
            PlayerDataReturned /\ calls = PlayerCalls(2) /\ DOMAIN data = {"error"})
    /\ (LookupRaised(resp_stats) =>
            PlayerDataReturned /\ calls = PlayerCalls(3) /\ DOMAIN data = {"error"})

C6_Witness ==
    /\ PlayerDataReturned
    /\ LookupRaised(resp_stats)
    /\ "playtime_cs2_hours" \in DOMAIN player_data
    /\ data = ErrSteam("Timeout")

(* ------------------- claims: get_faceit_data, perfil_page ------------- *)

\* get_faceit_data has reached a return statement (or has raised)
FaceitReturned == pc = "f_return"

\* the history lookup answered 200
HistoryOk ==
    /\ "exc" \in DOMAIN resp_history
    /\ resp_history.exc = ""
    /\ resp_history.status_code = 200

\* the items of the history answer
HistoryItems ==
    IF "items" \in DOMAIN resp_history.body THEN resp_history.body.items ELSE <<>>

\* get_faceit_data returned a record with a history list
RecordReturned ==
    /\ FaceitReturned
    /\ faceit_ret.kind = "return"
    /\ "history" \in DOMAIN faceit_ret.value

IsFaceitCall(c) ==
    c \in {"faceit/players", "faceit/stats", "faceit/history", "faceit/matches"}
FaceitCalls == SelectSeq(calls, IsFaceitCall)

HasId(item) == "match_id" \in DOMAIN item /\ item.match_id # ""

\* the detail answer of the item is a 200 whose rounds[0] lists the player pid
PlayerListed(item, pid) ==
    LET resp == MatchStats(item.match_id)
    IN  /\ resp.exc = ""
        /\ resp.status_code = 200
        /\ "rounds" \in DOMAIN resp.body
        /\ Len(resp.body.rounds) > 0
        /\ "teams" \in DOMAIN resp.body.rounds[1]
        /\ \E t \in 1..Len(resp.body.rounds[1].teams) :
             /\ "players" \in DOMAIN resp.body.rounds[1].teams[t]
             /\ \E p \in 1..Len(resp.body.rounds[1].teams[t].players) :
                  /\ "player_id" \in DOMAIN resp.body.rounds[1].teams[t].players[p]
                  /\ resp.body.rounds[1].teams[t].players[p].player_id = pid

\* entry is item plus a stats sub-record when the player is listed, else item itself
EntryOf(entry, item, pid) ==
    IF HasId(item) /\ PlayerListed(item, pid)
    THEN /\ "stats" \in DOMAIN entry
         /\ [k \in DOMAIN entry \ {"stats"} |-> entry[k]] = item
    ELSE entry = item

\* history has one entry per item of items, in order
EntriesOf(history, items, pid) ==
    /\ Len(history) = Len(items)
    /\ \A i \in 1..Len(items) : EntryOf(history[i], items[i], pid)

\* C1, as stated: for a 200 history answer the returned history has exactly one
\* entry per item of the answer, in order, enriched with stats iff the detail
\* lookup returned 200 and the player was found in rounds[0].
C1_OneEntryPerItem ==
    RecordReturned /\ HistoryOk =>
        EntriesOf(faceit_ret.value.history, HistoryItems, player_id)

\* C1, amended: one entry per item that carries a non-empty match_id; items
\* without one are skipped.
C1_OneEntryPerItemWithId ==
    RecordReturned /\ HistoryOk =>
        EntriesOf(faceit_ret.value.history, SelectSeq(HistoryItems, HasId), player_id)

C1_Witness ==
    /\ RecordReturned
    /\ HistoryOk
    /\ Len(faceit_ret.value.history) >= 3
    /\ Len(faceit_ret.value.history) < Len(HistoryItems)
    /\ \E i, j \in 1..Len(faceit_ret.value.history) :
         /\ i < j
         /\ "stats" \notin DOMAIN faceit_ret.value.history[i]
         /\ "stats" \in DOMAIN faceit_ret.value.history[j]

\* no detail lookup of the history answer fails in transport
NoDetailRaises ==
    \A i \in 1..Len(HistoryItems) :
        HasId(HistoryItems[i]) => MatchStats(HistoryItems[i].match_id).exc = ""

\* C2: when no lookup raises, get_faceit_data returns a record whose history has
\* every item with a match id, whatever the detail answers hold: a non-200, a
\* body without the player, a body without usable round data.
C2_EnrichmentFailureNeverAborts ==
    FaceitReturned /\ HistoryOk /\ NoDetailRaises =>
        /\ RecordReturned
        /\ EntriesOf(faceit_ret.value.history, SelectSeq(HistoryItems, HasId),
                     player_id)

\* the search answer gives no player: a non-200, or a 200 body without player_id
NoPlayer(resp) ==
    /\ "exc" \in DOMAIN resp
    /\ resp.exc = ""
    /\ \/ resp.status_code # 200
       \/ "player_id" \notin DOMAIN resp.body
       \/ resp.body.player_id = ""

\* C7: get_faceit_data never raises; it returns None when the search finds no
\* player, issuing no further lookup, and when any lookup raises, whatever
\* history it had collected.
C7_AbsentNeverRaises ==
    /\ (FaceitReturned => faceit_ret.kind = "return")
    /\ (NoPlayer(resp_search) =>
            /\ FaceitReturned
            /\ faceit_ret = Returned(PyNone)
            /\ FaceitCalls = <<"faceit/players">>)
    /\ (\/ LookupRaised(resp_search)
        \/ LookupRaised(resp_lifetime)
        \/ LookupRaised(resp_history)
        \/ LookupRaised(resp_match_stats)
            => FaceitReturned /\ faceit_ret = Returned(PyNone))

C7_Witness ==
    /\ FaceitReturned
    /\ LookupRaised(resp_match_stats)
    /\ Len(detailed_match_list) >= 2
    /\ faceit_ret = Returned(PyNone)

C3_SecondaryIffPrimaryOk ==
    /\ (FaceitCalls # <<>> \/ pc \in {"f_start", "f_search"} =>
            "profile" \in DOMAIN data /\ "error" \notin DOMAIN data)
    /\ (pc = "done" /\ caller = "perfil_page" =>
            IF "error" \in DOMAIN data
            THEN /\ response = [kind |-> "text", body |-> <<"Erro: ">> \o data.error]
                 /\ FaceitCalls = <<>>
            ELSE /\ CountOf(calls, "faceit/players") = 1
                 /\ "faceit" \in DOMAIN data
                 /\ data.faceit = faceit_ret.value
                 /\ response = [kind |-> "template", template |-> "perfil.html",
                                data |-> data])

C3_Witness ==
    /\ pc = "done"
    /\ caller = "perfil_page"
    /\ response.kind = "template"
    /\ "faceit" \in DOMAIN response.data
    /\ response.data.faceit = PyNone
    /\ FaceitCalls = <<"faceit/players">>

(* ------------------------ claims: get_steam_id64 ---------------------- *)

\* position of the last character of str that is not a slash, 0 if there is none
LastNonSlash(str) ==
    LET at == { i \in 1..Len(str) : str[i] # "/" }
    IN  IF at = {} THEN 0 ELSE CHOOSE i \in at : \A j \in at : j <= i

\* the last path segment of str: the slash-free run that ends at LastNonSlash
PathSegment(str) ==
    LET last == LastNonSlash(str)
        cuts == { i \in 1..last : str[i] = "/" }
        from == IF cuts = {} THEN 1 ELSE (CHOOSE i \in cuts : \A j \in cuts : j <= i) + 1
    IN  SubSeq(str, from, last)

\* exactly 17 characters, all of them digits
Numeric17(str) == Len(str) = IdLen /\ \A i \in 1..Len(str) : str[i] \in DigitChars

\* the vanity answer is a success with an id
Resolved(resp) ==
    /\ resp.exc = ""
    /\ "response" \in DOMAIN resp.body
    /\ "success" \in DOMAIN resp.body.response
    /\ resp.body.response.success = 1
    /\ "steamid" \in DOMAIN resp.body.response

UsersUnique ==
    \A i, j \in 1..Len(users) :
        i < j => users[i].username # users[j].username /\ users[i].email # users[j].email

\* no request gets as far as the database with a duplicate
NoIntegrityError == last_request.outcome # "IntegrityError"

\* a request writes only when it is accepted: a registration ends "created"
\* only by appending a row whose username and email no row had, an update ends
\* "updated" only by changing the user's own row to a username and an email no
\* other row has, and every other request leaves the table as it is
OnlyAcceptedRequestsWrite ==
    IF last_request'.outcome = "created"
    THEN /\ Len(users') = Len(users) + 1
         /\ \A i \in 1..Len(users) :
              /\ users'[i] = users[i]
              /\ users[i].username # users'[Len(users')].username
              /\ users[i].email # users'[Len(users')].email
    ELSE IF last_request'.outcome = "updated"
    THEN /\ Len(users') = Len(users)
         /\ \A i \in 1..Len(users) :
              i # current_user =>
                  /\ users'[i] = users[i]
                  /\ users[i].username # users'[current_user].username
                  /\ users[i].email # users'[current_user].email
    ELSE users' = users

\* C8: usernames and emails stay unique through every sequence of register and
\* update-profile requests; a registration or an update that would duplicate
\* one is turned down by the form, before the database, and writes nothing.
C8_UniqueUsers ==
    /\ [](UsersUnique /\ NoIntegrityError)
    /\ [][OnlyAcceptedRequestsWrite]_vars

C8_Witness ==
    /\ Len(users) = 2
    /\ current_user = 0
    /\ last_request.route = "register"
    /\ last_request.outcome = "invalid"
    /\ "username: in use" \in last_request.errors
    /\ "email: in use" \notin last_request.errors

=============================================================================
